---- MODULE Spec2Model ----
(***************************************************************************)
(* WhatsBlast: the resumable batch sender (send mode, src/main.py) and the *)
(* registration check (probe mode, src/whatsapp_checker.py).               *)
(*                                                                         *)
(* A phone number is a sequence of one-character strings; a CSV row is a   *)
(* sequence of fields.  In a row of the results file the first field is a  *)
(* phone number and the second a status string.                            *)
(***************************************************************************)
EXTENDS Integers, Sequences, FiniteSets, TLC

\* ------------------------------------------------------------------ bounds
MaxInput == 2       \* data rows of the phone CSV (the general specification)
MaxRuns  == 2       \* invocations of the program, one after the other
MaxLen   == 3       \* characters of a raw entry (the canonicalization spec)
MaxBatch == 2       \* largest --batch_size tried

\* ------------------------------------------------------- program constants
SleepAfterError   == 10    \* asyncio.sleep(10) in the except branch
PauseBetween      == 1     \* asyncio.sleep(1) after every send_message
DefaultBatchSize  == 5     \* argparse default of --batch_size
MaxRetries        == 3     \* is_number_on_whatsapp(..., max_retries=3)
ProbeBatchSize    == 5     \* check_numbers_on_whatsapp(..., batch_size=5)

\* ---------------------------------------------------------------- strings
AsciiDigits  == {"0", "1", "2", "3", "4", "5", "6", "7", "8", "9"}
\* "u0663" stands for the one character ARABIC-INDIC DIGIT THREE (category Nd)
OtherDigits  == {"u0663"}
\* the characters raw entries are drawn from in the canonicalization spec
Alphabet     == {"1", "2", "u0663", "+", "-", "a"}

\* re's \d on a str pattern: any Unicode decimal digit (category Nd)
IsDecimalDigit(c) == c \in AsciiDigits \cup OtherDigits

\* faulty variant: only '+' signs are removed
canon_plus_only(s) == SelectSeq(s, LAMBDA c : c # "+")

\* re.sub(r'\D', '', s): drop every character \D matches, keep the rest in order
RECURSIVE canon(_)
canon(s) ==
  IF s = <<>> THEN <<>>
  ELSE IF IsDecimalDigit(Head(s)) THEN <<Head(s)>> \o canon(Tail(s))
       ELSE canon(Tail(s))

\* ------------------------------------------------------------------ files
ResultsHeader == << <<"P", "h", "o", "n", "e", " ", "N", "u", "m", "b", "e", "r">>, "Status" >>
InputHeader   == << <<"P", "h", "o", "n", "e">> >>

SentSuccessfully == "Sent successfully"

\* the for-loop of read_phone_numbers_from_csv over the rows after the header
RECURSIVE CleanRows(_)
CleanRows(rows) ==
  IF rows = <<>> THEN <<>>
  ELSE LET row == Head(rows) IN
       (IF row # <<>> THEN <<canon(row[1])>> ELSE <<>>) \o CleanRows(Tail(rows))

\* read_phone_numbers_from_csv: next(reader, None) skips the first row
read_phone_numbers_from_csv(file) ==
  IF file = <<>> THEN <<>> ELSE CleanRows(Tail(file))

\* the for-loop of read_processed_numbers; a row with one field raises
\* IndexError at row[1], which the except clause catches: the set built so
\* far is returned
RECURSIVE ScanProcessed(_, _)
ScanProcessed(rows, acc) ==
  IF rows = <<>> THEN acc
  ELSE LET row == Head(rows) IN
       IF row = <<>> THEN ScanProcessed(Tail(rows), acc)
       ELSE IF Len(row) < 2 THEN acc
       ELSE IF row[2] = SentSuccessfully
            THEN ScanProcessed(Tail(rows), acc \cup {canon(row[1])})
            ELSE ScanProcessed(Tail(rows), acc)

\* faulty variant: every recorded target counts as processed, whatever its status
RECURSIVE ScanRecorded(_, _)
ScanRecorded(rows, acc) ==
  IF rows = <<>> THEN acc
  ELSE IF Head(rows) = <<>> THEN ScanRecorded(Tail(rows), acc)
       ELSE ScanRecorded(Tail(rows), acc \cup {canon(Head(rows)[1])})
read_processed_numbers_any_status(file) ==
  IF file = <<>> THEN {} ELSE ScanRecorded(Tail(file), {})

\* faulty variant: the last record of a target decides whether it is done
RECURSIVE ScanLatest(_, _)
ScanLatest(rows, acc) ==
  IF rows = <<>> THEN acc
  ELSE LET row == Head(rows) IN
       IF row = <<>> THEN ScanLatest(Tail(rows), acc)
       ELSE IF Len(row) < 2 THEN acc
       ELSE IF row[2] = SentSuccessfully
            THEN ScanLatest(Tail(rows), acc \cup {canon(row[1])})
            ELSE ScanLatest(Tail(rows), acc \ {canon(row[1])})
read_processed_numbers_latest(file) ==
  IF file = <<>> THEN {} ELSE ScanLatest(Tail(file), {})

\* faulty variant: no record of the results file counts as done
read_processed_numbers_none(file) == {}

\* read_processed_numbers: a missing file makes open() raise, the set is empty
read_processed_numbers(file) ==
  IF file = <<>> THEN {} ELSE ScanProcessed(Tail(file), {})

\* faulty variant: the pending list is not filtered by the done set
NotIn_unfiltered(done, num) == TRUE

\* [num for num in phone_numbers if num not in processed_numbers]
NotIn(done, num) == num \notin done
phone_numbers_to_send_of(numbers, done) ==
  SelectSeq(numbers, LAMBDA num : NotIn(done, num))

\* ---------------------------------------------------------------- channel
\* What the page does for one target, as send_message observes it:
\*   goto_error  page.goto raises (navigation error, 30 s timeout)
\*   alert       div[role="alert"] appears, its text is the reason
\*   no_box      no alert within 10 s, no message box within 10 s
\*   type_error  the message box is found, typing or pressing raises
\*   sent        the message is typed and Enter pressed
Paths       == {"goto_error", "alert", "no_box", "type_error", "sent"}
AlertTexts  == {"invalid"}
ErrorTexts  == {"timeout"}
Details(path) ==
  IF path = "alert" THEN AlertTexts
  ELSE IF path \in {"goto_error", "type_error"} THEN ErrorTexts
  ELSE {""}

\* the status send_message writes on each path
StatusOf(path, detail) ==
  IF path = "alert" THEN "Failed - Invalid number: " \o detail
  ELSE IF path = "no_box" THEN "Failed"
  ELSE IF path = "sent" THEN SentSuccessfully
  ELSE "Failed - " \o detail

\* seconds slept after the row is written and before the next target starts
PauseAfter(path) ==
  IF path \in {"goto_error", "type_error"} THEN SleepAfterError + PauseBetween
  ELSE PauseBetween

\* the three-way outcome of the specification, by path
Outcome(path) ==
  IF path = "sent" THEN "Success"
  ELSE IF path = "alert" THEN "Skipped"
  ELSE "Failed"

\* ------------------------------------------------------------------ state
VARIABLES
  phone_csv,              \* rows of the input file, header first
  batch_size,             \* --batch_size
  output_csv,             \* rows persisted in message_sending_results.csv; <<>>: no file
  buf,                    \* rows written through the csv writer, not yet in the file
  pc,                     \* where main is
  phone_numbers,          \* main's list after read_phone_numbers_from_csv
  processed_numbers,      \* main's set after read_processed_numbers
  phone_numbers_to_send,  \* main's pending list
  i,                      \* send_messages_in_batches: start of the current batch
  k,                      \* position inside the current batch (0-based)
  calls,                  \* this run's send_message calls: target, outcome, detail
  pause,                  \* seconds slept between the last row and the next target
  startLen,               \* rows of output_csv when this run started
  run,                    \* number of the current invocation
  message_txt,            \* the message file: whether it can be read, its text
  message,                \* main's message after read_message_from_text
  browser,                \* get_browser_and_page's browser: unbound, open, closed
  page,                   \* get_browser_and_page's page: unbound, open, closed
  log,                    \* this run's error lines in the log, by what failed:
                          \* phone_csv, message_txt, output_csv, session, loop, close
  exit_status,            \* how the process ended: running, zero, nonzero
  whatsapp_csv,           \* probe mode: rows of whatsapp_numbers.csv; <<>>: no file
  non_whatsapp_csv        \* probe mode: rows of non_whatsapp_numbers.csv

\* the state of one run's session and diagnostics
session == <<message, browser, page, log, exit_status>>
\* the two files only whatsapp_checker.py writes
probeFiles == <<whatsapp_csv, non_whatsapp_csv>>

vars == <<phone_csv, batch_size, output_csv, buf, pc, phone_numbers,
          processed_numbers, phone_numbers_to_send, i, k, calls, pause,
          startLen, run, message_txt, message, browser, page, log,
          exit_status, whatsapp_csv, non_whatsapp_csv>>

\* ----------------------------------------------------------- message file
Whitespace == {" ", "\n"}

\* str.strip(): leading and trailing whitespace removed
RECURSIVE lstrip(_)
lstrip(s) == IF s # <<>> /\ Head(s) \in Whitespace THEN lstrip(Tail(s)) ELSE s
RECURSIVE rstrip(_)
rstrip(s) ==
  IF s # <<>> /\ s[Len(s)] \in Whitespace THEN rstrip(SubSeq(s, 1, Len(s) - 1)) ELSE s
strip(s) == rstrip(lstrip(s))

\* read_message_from_text: the stripped text; when open() or read() raises,
\* the error is logged and the empty string returned
read_message_from_text(file) == IF file.readable THEN strip(file.text) ELSE <<>>

ReadableMessage   == [readable |-> TRUE,  text |-> <<"h", "i", "\n">>]
UnreadableMessage == [readable |-> FALSE, text |-> <<>>]
MessageFiles      == {ReadableMessage, UnreadableMessage}

\* ----------------------------------------------------------------- session
\* get_browser_and_page, lines 26-28: the step at which acquisition raises,
\* or ok when the page is yielded
AcquireStages == {"launch", "newPage", "qr_scan", "ok"}

\* what the names browser and page are bound to when acquisition stops there
BrowserAfter(stage) == IF stage = "launch" THEN "unbound" ELSE "open"
PageAfter(stage)    == IF stage \in {"launch", "newPage"} THEN "unbound" ELSE "open"

\* faulty variant: the dispatch loop runs whatever acquisition did
PcAfterAcquire_ignored(stage) == "sending"

\* where main is after the async with statement was entered: in the loop
\* when the page was yielded, at its end when acquisition raised (line 32
\* raises again, line 244 catches)
PcAfterAcquire(stage) == IF stage = "ok" THEN "sending" ELSE "done"

\* the finally clause of get_browser_and_page, lines 33-39: page.close() and
\* browser.close() in one try block.  With page unbound the first statement
\* raises UnboundLocalError; when page.close() raises (close_ok false) the
\* block ends too: in both cases browser.close() is not reached.  "closed"
\* says that close() was called on the object.
PageReleased(p) == IF p = "open" THEN "closed" ELSE p
BrowserReleased(b, p, close_ok) ==
  IF p = "open" /\ close_ok /\ b = "open" THEN "closed" ELSE b
CloseErrors(p, close_ok) == IF p = "open" /\ close_ok THEN {} ELSE {"close"}

\* ------------------------------------------------------------------ inputs
RawEntries == { <<"1", "1", "1">>, <<"+", "1", "1", "1">>, <<"2", "2", "2">>, <<"a">> }
RawRows    == { <<e>> : e \in RawEntries } \cup { <<>> }

RECURSIVE SeqsUpTo(_, _)
SeqsUpTo(S, n) ==
  IF n = 0 THEN { <<>> }
  ELSE LET shorter == SeqsUpTo(S, n - 1) IN
       shorter \cup { Append(s, x) : s \in {t \in shorter : Len(t) = n - 1}, x \in S }

Fresh ==
  /\ output_csv = <<>>
  /\ buf = <<>>
  /\ pc = "start"
  /\ phone_numbers = <<>>
  /\ processed_numbers = {}
  /\ phone_numbers_to_send = <<>>
  /\ i = 0
  /\ k = 0
  /\ calls = <<>>
  /\ pause = 0
  /\ startLen = 0
  /\ run = 1
  /\ message = <<>>
  /\ browser = "unbound"
  /\ page = "unbound"
  /\ log = {}
  /\ exit_status = "running"
  /\ whatsapp_csv = <<>>
  /\ non_whatsapp_csv = <<>>

Init ==
  /\ phone_csv \in { <<InputHeader>> \o rows : rows \in SeqsUpTo(RawRows, MaxInput) }
  /\ batch_size \in 1..MaxBatch
  /\ message_txt = ReadableMessage
  /\ Fresh

\* ----------------------------------------------------------------- actions
\* main, lines 210-237: read the inputs, compute the pending list, create the
\* results file with its header when it does not exist.  readable: whether
\* open() of the phone CSV succeeds (when it raises, the function returns the
\* empty list); created: whether the header can be written (when that
\* raises, main returns).
Startup ==
  /\ pc = "start"
  /\ \E readable \in BOOLEAN : \E created \in BOOLEAN :
     LET numbers == IF readable THEN read_phone_numbers_from_csv(phone_csv) ELSE <<>>
         done    == read_processed_numbers(output_csv)
         pending == phone_numbers_to_send_of(numbers, done)
         read_errors == (IF readable THEN {} ELSE {"phone_csv"})
                           \cup (IF message_txt.readable THEN {} ELSE {"message_txt"})
     IN /\ phone_numbers' = numbers
        /\ message' = read_message_from_text(message_txt)
        /\ startLen' = Len(output_csv)
        /\ IF numbers = <<>>
           THEN /\ pc' = "done"
                /\ log' = read_errors
                /\ UNCHANGED <<processed_numbers, phone_numbers_to_send, output_csv>>
           ELSE /\ processed_numbers' = done
                /\ phone_numbers_to_send' = pending
                /\ IF pending = <<>>
                   THEN pc' = "done" /\ log' = read_errors /\ UNCHANGED output_csv
                   ELSE IF output_csv # <<>>
                   THEN pc' = "session" /\ log' = read_errors /\ UNCHANGED output_csv
                   ELSE IF created
                   THEN pc' = "session" /\ log' = read_errors
                        /\ output_csv' = <<ResultsHeader>>
                   ELSE pc' = "done" /\ log' = read_errors \cup {"output_csv"}
                        /\ UNCHANGED output_csv
  /\ exit_status' = IF pc' = "done" THEN "zero" ELSE "running"
  /\ UNCHANGED <<phone_csv, batch_size, buf, i, k, calls, pause, run,
                 message_txt, browser, page, probeFiles>>

\* main, lines 239-242: the results file is opened for append, then the
\* browser session is acquired; when that raises, main's except and the with
\* statement end the run with nothing written
OpenSession ==
  /\ pc = "session"
  /\ \E stage \in AcquireStages :
     \E close_ok \in (IF stage = "ok" THEN {TRUE} ELSE BOOLEAN) :
       /\ pc' = PcAfterAcquire(stage)
       /\ IF stage = "ok"
          THEN /\ browser' = "open"
               /\ page' = "open"
               /\ UNCHANGED <<log, exit_status>>
          ELSE /\ page' = PageReleased(PageAfter(stage))
               /\ browser' = BrowserReleased(BrowserAfter(stage), PageAfter(stage), close_ok)
               /\ log' = log \cup {"session"} \cup CloseErrors(PageAfter(stage), close_ok)
               /\ exit_status' = "zero"
  /\ i' = 0
  /\ k' = 0
  /\ UNCHANGED <<phone_csv, batch_size, output_csv, buf, phone_numbers,
                 processed_numbers, phone_numbers_to_send, calls, pause,
                 startLen, run, message_txt, message, probeFiles>>

\* the target the loops of send_messages_in_batches are at
Current == phone_numbers_to_send[i + k + 1]

\* the row send_message writes for a target on a path
RowOf(phone_number, path, detail) == <<phone_number, StatusOf(path, detail)>>

\* the loop variables after one more target of the batch is done
NextI == IF k + 1 < batch_size THEN i ELSE i + batch_size
NextK == IF k + 1 < batch_size THEN k + 1 ELSE 0

\* for i in range(0, total_numbers, batch_size), for phone_number in batch:
\* there is a next target.  range() is empty for a negative step and raises
\* ValueError for step 0.
LoopHasNext == batch_size > 0 /\ i + k < Len(phone_numbers_to_send)

\* the paths on which what the page raises reaches line 165
Raises(path) == path \in {"goto_error", "type_error"}

\* faulty variant: the except clause catches nothing
Caught_nothing(path) == FALSE

\* except Exception, line 165: what the page raises on these paths
\* (pyppeteer's errors, asyncio.TimeoutError) is an instance of Exception
Caught(path) == path \in {"goto_error", "type_error"}

\* control leaves the async with statement and the with statement of lines
\* 240-243: the session is released, the file is closed, which writes the
\* buffered rows
LeaveSession(close_ok) ==
  /\ page' = PageReleased(page)
  /\ browser' = BrowserReleased(browser, page, close_ok)
  /\ output_csv' = output_csv \o buf
  /\ buf' = <<>>

\* send_message for the current target, then the pause of line 189.  An
\* exception that line 165 does not catch leaves send_message with no row
\* written and ends the loop: lines 30-39 release the session, line 244
\* catches.
SendMessage ==
  /\ pc = "sending"
  /\ LoopHasNext
  /\ \E path \in Paths : \E detail \in Details(path) :
     \E close_ok \in (IF Raises(path) /\ ~Caught(path) THEN BOOLEAN ELSE {TRUE}) :
       IF Raises(path) /\ ~Caught(path)
       THEN /\ calls' = Append(calls, [target |-> Current, outcome |-> "Raised",
                                        detail |-> detail])
            /\ LeaveSession(close_ok)
            /\ pc' = "done"
            /\ log' = log \cup {"loop"} \cup CloseErrors(page, close_ok)
            /\ exit_status' = "zero"
            /\ UNCHANGED <<i, k, pause>>
       ELSE /\ buf' = Append(buf, RowOf(Current, path, detail))
            /\ calls' = Append(calls, [target |-> Current, outcome |-> Outcome(path),
                                        detail |-> detail])
            /\ pause' = PauseAfter(path)
            /\ i' = NextI
            /\ k' = NextK
            /\ UNCHANGED <<output_csv, pc, browser, page, log, exit_status>>
  /\ UNCHANGED <<phone_csv, batch_size, phone_numbers,
                 processed_numbers, phone_numbers_to_send, startLen, run,
                 message_txt, message, probeFiles>>

\* the file object of line 240 has the default buffering: rows reach the
\* file when the runtime empties the buffer, which it may do at any time
BufferSpill ==
  /\ pc = "sending"
  /\ buf # <<>>
  /\ output_csv' = output_csv \o buf
  /\ buf' = <<>>
  /\ UNCHANGED <<phone_csv, batch_size, pc, phone_numbers, processed_numbers,
                 phone_numbers_to_send, i, k, calls, pause, startLen, run,
                 message_txt, session, probeFiles>>

\* the loops are over (or range() raised ValueError for step 0, which lines
\* 30-32 log and raise again and line 244 catches): the session is
\* released, the with statement closes the file, which writes the buffered
\* rows
Finish ==
  /\ pc = "sending"
  /\ ~LoopHasNext
  /\ \E close_ok \in BOOLEAN :
       /\ LeaveSession(close_ok)
       /\ log' = log \cup (IF batch_size = 0 THEN {"loop"} ELSE {})
                     \cup CloseErrors(page, close_ok)
  /\ pc' = "done"
  /\ exit_status' = "zero"
  /\ UNCHANGED <<phone_csv, batch_size, phone_numbers, processed_numbers,
                 phone_numbers_to_send, i, k, calls, pause, startLen, run,
                 message_txt, message, probeFiles>>

\* the process is killed while the results file is open: what the buffer
\* holds is lost
Kill ==
  /\ pc \in {"session", "sending"}
  /\ buf' = <<>>
  /\ pc' = "killed"
  /\ exit_status' = "nonzero"
  /\ UNCHANGED <<phone_csv, batch_size, output_csv, phone_numbers,
                 processed_numbers, phone_numbers_to_send, i, k, calls, pause,
                 startLen, run, message_txt, message, browser, page, log,
                 probeFiles>>

\* the operator presses Ctrl-C during the loop (Python 3.8 and later): the
\* main task is cancelled at the await it is suspended on, inside
\* send_message for the current target (in_flight) or in the pause of line
\* 189.  CancelledError is not an instance of Exception: line 165 does not
\* catch it and no row is written for the target in flight; the finally
\* clause of lines 33-39 and the with statement run; neither line 244 nor
\* line 255 catches; the process ends with KeyboardInterrupt.
Interrupt ==
  /\ pc = "sending"
  /\ \E in_flight \in (IF LoopHasNext THEN BOOLEAN ELSE {FALSE}) :
     \E close_ok \in BOOLEAN :
       /\ calls' = IF in_flight
                   THEN Append(calls, [target |-> Current, outcome |-> "Cancelled",
                                       detail |-> ""])
                   ELSE calls
       /\ LeaveSession(close_ok)
       /\ log' = log \cup CloseErrors(page, close_ok)
  /\ pc' = "interrupted"
  /\ exit_status' = "nonzero"
  /\ UNCHANGED <<phone_csv, batch_size, phone_numbers, processed_numbers,
                 phone_numbers_to_send, i, k, pause, startLen, run,
                 message_txt, message, probeFiles>>

\* the operator starts the program again, same input file, same results file
Rerun ==
  /\ pc \in {"done", "killed", "interrupted"}
  /\ run < MaxRuns
  /\ run' = run + 1
  /\ pc' = "start"
  /\ buf' = <<>>
  /\ phone_numbers' = <<>>
  /\ processed_numbers' = {}
  /\ phone_numbers_to_send' = <<>>
  /\ i' = 0
  /\ k' = 0
  /\ calls' = <<>>
  /\ pause' = 0
  /\ startLen' = Len(output_csv)
  /\ message' = <<>>
  /\ browser' = "unbound"
  /\ page' = "unbound"
  /\ log' = {}
  /\ exit_status' = "running"
  /\ UNCHANGED <<phone_csv, batch_size, output_csv, message_txt, probeFiles>>

Next ==
  \/ Startup
  \/ OpenSession
  \/ SendMessage
  \/ BufferSpill
  \/ Finish
  \/ Kill
  \/ Interrupt
  \/ Rerun

Spec == Init /\ [][Next]_vars

\* The canonicalization specification: the program run over an input file of
\* one data row whose entry is any string over Alphabet of at most MaxLen
\* characters.
InitCanon ==
  /\ phone_csv \in { <<InputHeader, <<x>> >> : x \in SeqsUpTo(Alphabet, MaxLen) }
  /\ batch_size = DefaultBatchSize
  /\ message_txt = ReadableMessage
  /\ Fresh

SpecCanon == InitCanon /\ [][Next]_vars

\* The end-to-end scenario: the program run over the input list
\* ["111", "+111", "222"], no results file at the start.
ScenarioRows == << <<<<"1", "1", "1">>>>, <<<<"+", "1", "1", "1">>>>, <<<<"2", "2", "2">>>> >>

InitScenario ==
  /\ phone_csv = <<InputHeader>> \o ScenarioRows
  /\ batch_size \in 1..MaxBatch
  /\ message_txt = ReadableMessage
  /\ Fresh

SpecScenario == InitScenario /\ [][Next]_vars

\* The startup and session faults: the program run over a few input files,
\* with the message file readable or not and every batch size argparse
\* accepts from -1 to MaxBatch.
FaultRows == { <<>>,
               << <<<<"1", "1", "1">>>> >>,
               << <<<<"1", "1", "1">>>>, <<<<"2", "2", "2">>>> >>,
               << <<<<"1", "1", "1">>>>, <<<<"+", "1", "1", "1">>>> >> }

InitFaults ==
  /\ phone_csv \in { <<InputHeader>> \o rows : rows \in FaultRows }
  /\ batch_size \in -1..MaxBatch
  /\ message_txt \in MessageFiles
  /\ Fresh

SpecFaults == InitFaults /\ [][Next]_vars

\* ------------------------------------------------------------- probe mode
\* whatsapp_checker.py: the same loop with is_number_on_whatsapp as the
\* operation and two result files.  phone_numbers_to_send holds its list
\* phone_numbers_to_check, processed_numbers its set of the same name.
PositiveHeader == << <<"P", "h", "o", "n", "e", " ", "N", "u", "m", "b", "e", "r">> >>
NegativeHeader == << <<"P", "h", "o", "n", "e", " ", "N", "u", "m", "b", "e", "r">>, "Reason" >>

\* the for-loop of whatsapp_checker's read_phone_numbers_from_csv: row[0]
\* as it stands, nothing removed
RECURSIVE RawRowsOf(_)
RawRowsOf(rows) ==
  IF rows = <<>> THEN <<>>
  ELSE (IF Head(rows) # <<>> THEN <<Head(rows)[1]>> ELSE <<>>) \o RawRowsOf(Tail(rows))

checker_read_phone_numbers_from_csv(file) ==
  IF file = <<>> THEN <<>> ELSE RawRowsOf(Tail(file))

\* read_existing_numbers: the first field of every row after the first
read_existing_numbers(file) ==
  IF file = <<>> THEN {}
  ELSE { Tail(file)[n][1] : n \in { m \in 1..Len(Tail(file)) : Tail(file)[m] # <<>> } }

\* what one attempt of is_number_on_whatsapp meets: an exception (page.goto
\* raises or times out), or the first element it finds: the chat input, the
\* invalid-number element, the modal error element, or none of them
Signals         == {"chat_input", "invalid", "error_modal", "none"}
AttemptOutcomes == Signals \cup {"exception"}
ModalTexts      == {"error"}
NotFoundReason  == "Number not found on WhatsApp"

\* the pair an attempt that raised nothing returns
ReturnOf(signal, text) ==
  IF signal = "chat_input" THEN [on |-> TRUE, reason |-> ""]
  ELSE IF signal = "none" THEN [on |-> FALSE, reason |-> NotFoundReason]
  ELSE [on |-> FALSE, reason |-> text]

TextsOf(signal) ==
  IF signal = "invalid" THEN AlertTexts
  ELSE IF signal = "error_modal" THEN ModalTexts
  ELSE IF signal = "exception" THEN ErrorTexts
  ELSE {""}

\* is_number_on_whatsapp from attempt number attempt on; attempts[n] is what
\* attempt n meets, texts[n] the text of the element or of the exception
RECURSIVE is_number_on_whatsapp(_, _, _)
is_number_on_whatsapp(attempts, texts, attempt) ==
  IF attempts[attempt] = "exception"
  THEN IF attempt = MaxRetries
       THEN [on |-> FALSE, reason |-> texts[attempt], attempts |-> attempt,
             seen |-> "exception"]
       ELSE is_number_on_whatsapp(attempts, texts, attempt + 1)
  ELSE [on |-> ReturnOf(attempts[attempt], texts[attempt]).on,
        reason |-> ReturnOf(attempts[attempt], texts[attempt]).reason,
        attempts |-> attempt, seen |-> attempts[attempt]]

\* what the page may do over the attempts of one call
AttemptSeqs == [1..MaxRetries -> AttemptOutcomes]
TextSeqs(attempts) ==
  { t \in [1..MaxRetries -> AlertTexts \cup ModalTexts \cup ErrorTexts \cup {""}] :
       \A n \in 1..MaxRetries : t[n] \in TextsOf(attempts[n]) }

InitProbe ==
  /\ phone_csv \in { <<InputHeader>> \o rows : rows \in SeqsUpTo(RawRows, MaxInput) }
  /\ batch_size = ProbeBatchSize
  /\ message_txt = ReadableMessage
  /\ Fresh

\* whatsapp_checker's main, lines 196-214, and check_numbers_on_whatsapp,
\* lines 119-125: read the input, create each result file that does not
\* exist with its header (a failure is logged and main goes on), read both
\* files and compute the list to check.  The session is acquired even when
\* that list is empty.
ProbeStartup ==
  /\ pc = "start"
  /\ \E readable \in BOOLEAN : \E created \in BOOLEAN :
     LET numbers  == IF readable THEN checker_read_phone_numbers_from_csv(phone_csv)
                     ELSE <<>>
         positive == IF whatsapp_csv = <<>> /\ created /\ numbers # <<>>
                     THEN <<PositiveHeader>> ELSE whatsapp_csv
         negative == IF non_whatsapp_csv = <<>> /\ created /\ numbers # <<>>
                     THEN <<NegativeHeader>> ELSE non_whatsapp_csv
         done     == read_existing_numbers(positive) \cup read_existing_numbers(negative)
     IN /\ phone_numbers' = numbers
        /\ whatsapp_csv' = positive
        /\ non_whatsapp_csv' = negative
        /\ log' = (IF readable THEN {} ELSE {"phone_csv"})
                     \cup (IF numbers # <<>> /\ ~created
                              /\ (whatsapp_csv = <<>> \/ non_whatsapp_csv = <<>>)
                           THEN {"output_csv"} ELSE {})
        /\ IF numbers = <<>>
           THEN /\ pc' = "done"
                /\ exit_status' = "zero"
                /\ UNCHANGED <<processed_numbers, phone_numbers_to_send>>
           ELSE /\ pc' = "session"
                /\ exit_status' = "running"
                /\ processed_numbers' = done
                /\ phone_numbers_to_send' = phone_numbers_to_send_of(numbers, done)
  /\ UNCHANGED <<phone_csv, batch_size, output_csv, buf, i, k, calls, pause,
                 startLen, run, message_txt, message, browser, page>>

\* whatsapp_checker's get_browser_and_page, lines 22-26: the three steps of
\* acquisition stand before the try statement, so when one of them raises
\* nothing is closed; the exception leaves main and line 223 logs it
ProbeOpenSession ==
  /\ pc = "session"
  /\ \E stage \in AcquireStages :
       /\ browser' = BrowserAfter(stage)
       /\ page' = PageAfter(stage)
       /\ IF stage = "ok"
          THEN pc' = "probing" /\ UNCHANGED <<log, exit_status>>
          ELSE pc' = "done" /\ log' = log \cup {"session"} /\ exit_status' = "zero"
  /\ i' = 0
  /\ k' = 0
  /\ UNCHANGED <<phone_csv, batch_size, output_csv, buf, phone_numbers,
                 processed_numbers, phone_numbers_to_send, calls, pause,
                 startLen, run, message_txt, message, probeFiles>>

\* lines 131-140: is_number_on_whatsapp for the current number, its result
\* appended to one of the two files (append_number_to_file opens the file,
\* writes the row and closes it), the pause
ProbeNumber ==
  /\ pc = "probing"
  /\ LoopHasNext
  /\ \E attempts \in AttemptSeqs : \E texts \in TextSeqs(attempts) :
       LET result == is_number_on_whatsapp(attempts, texts, 1) IN
       /\ whatsapp_csv' = IF result.on THEN Append(whatsapp_csv, <<Current>>)
                          ELSE whatsapp_csv
       /\ non_whatsapp_csv' = IF result.on THEN non_whatsapp_csv
                              ELSE Append(non_whatsapp_csv, <<Current, result.reason>>)
       /\ calls' = Append(calls, [target |-> Current, on |-> result.on,
                                   reason |-> result.reason,
                                   attempts |-> result.attempts,
                                   seen |-> result.seen])
  /\ i' = NextI
  /\ k' = NextK
  /\ pause' = PauseBetween
  /\ UNCHANGED <<phone_csv, batch_size, output_csv, buf, pc, phone_numbers,
                 processed_numbers, phone_numbers_to_send, startLen, run,
                 message_txt, message, browser, page, log, exit_status>>

\* the loops are over: the finally clause of lines 30-35 closes the page and
\* the browser, main prints and returns
ProbeFinish ==
  /\ pc = "probing"
  /\ ~LoopHasNext
  /\ \E close_ok \in BOOLEAN :
       /\ page' = PageReleased(page)
       /\ browser' = BrowserReleased(browser, page, close_ok)
       /\ log' = log \cup CloseErrors(page, close_ok)
  /\ pc' = "done"
  /\ exit_status' = "zero"
  /\ UNCHANGED <<phone_csv, batch_size, output_csv, buf, phone_numbers,
                 processed_numbers, phone_numbers_to_send, i, k, calls, pause,
                 startLen, run, message_txt, message, probeFiles>>

NextProbe ==
  \/ ProbeStartup
  \/ ProbeOpenSession
  \/ ProbeNumber
  \/ ProbeFinish
  \/ Rerun

SpecProbe == InitProbe /\ [][NextProbe]_vars

\* ------------------------------------------------------- for the properties
Range(s) == { s[n] : n \in 1..Len(s) }

\* the results file as this run read it at startup
StartLedger == SubSeq(output_csv, 1, startLen)

\* the rows this run has put in the file, and all the rows it has written
RunRows     == SubSeq(output_csv, (IF startLen = 0 THEN 1 ELSE startLen) + 1, Len(output_csv))
WrittenRows == RunRows \o buf

\* the data rows of a results file (all but the header)
Records(file) == IF file = <<>> THEN <<>> ELSE Tail(file)

SkippedLabels == { "Failed - Invalid number: " \o r : r \in AlertTexts }

\* the decimal digits of a string, in order
DigitsOf(str) == SelectSeq(str, IsDecimalDigit)

HasSuccess(file, T) ==
  \E n \in 1..Len(Records(file)) :
     DigitsOf(Records(file)[n][1]) = T /\ Records(file)[n][2] = "Sent successfully"

HasSkipped(file, T) ==
  \E n \in 1..Len(Records(file)) :
     DigitsOf(Records(file)[n][1]) = T /\ Records(file)[n][2] \in SkippedLabels

\* the raw entries of the input file, in order (blank rows have none)
RawInput == SelectSeq(Tail(phone_csv), LAMBDA row : row # <<>>)

\* the run went through its whole pending list and closed the file
Completed == pc = "done" /\ phone_numbers_to_send # <<>> /\ output_csv # <<>>
             /\ i + k >= Len(phone_numbers_to_send)

\* ------------------------------------------------------------------ claims

\* C1 (resume idempotence): a target that has a 'Sent successfully' record in
\* the results file as read at startup is never passed to send_message in
\* this run, however its raw entry in the input file is formatted.
C1_ResumeIdempotence ==
  \A n \in 1..Len(calls) : ~HasSuccess(StartLedger, calls[n].target)

\* C1 witness: a later run that finished its pending list, over an input
\* holding an entry written with non-digits whose canonical form has a
\* 'Sent successfully' record from an earlier run, after sending to others.
C1_Witness ==
  /\ startLen > 0
  /\ Completed
  /\ calls # <<>>
  /\ \E n \in 1..Len(RawInput) :
        /\ RawInput[n][1] # DigitsOf(RawInput[n][1])
        /\ HasSuccess(StartLedger, DigitsOf(RawInput[n][1]))

\* C2 (at most one terminal success), as claimed: within one run, after
\* send_message recorded Success for a target it is not called for that
\* target again, so no target gets two Success records in one run.  Stated
\* for the targets that have digits.
C2_AtMostOneSuccess ==
  \A m, n \in 1..Len(calls) :
     (m < n /\ calls[m].outcome = "Success" /\ calls[m].target # <<>>)
        => calls[n].target # calls[m].target

\* C3 (crash safety), as claimed: when the process is killed, the results
\* file holds the record of every send_message call that had returned, so
\* every target recorded Success is in the done set the next run reads.
C3_CrashSafety ==
  pc = "killed" =>
     /\ Len(RunRows) = Len(calls)
     /\ \A n \in 1..Len(calls) :
           calls[n].outcome = "Success"
              => calls[n].target \in read_processed_numbers(output_csv)

C5_FailedRetriedByRerun ==
  \A n \in 1..Len(calls) :
     (calls[n].outcome = "Failed" /\ calls[n].target # <<>>)
        => /\ \A m \in 1..Len(calls) : m # n => calls[m].target # calls[n].target
           /\ pc = "done" => calls[n].target \notin read_processed_numbers(output_csv)

\* C6 (pacing order), as claimed: after a Failed call the pause before the
\* next target is strictly longer than the pause after a Success call.
\* Stated for the targets that have digits.
C6_PacingOrder ==
  (calls # <<>> /\ calls[Len(calls)].outcome = "Failed"
                /\ calls[Len(calls)].target # <<>>)
     => pause > PauseAfter("sent")

\* C7 (dedup, first-seen order), as claimed: the loaded list holds each
\* canonical target at most once.  Stated for the targets that have digits.
C7_Dedup ==
  \A m, n \in 1..Len(phone_numbers) :
     (m < n /\ phone_numbers[m] # <<>>) => phone_numbers[m] # phone_numbers[n]

C9_NoEmptyTarget ==
  /\ \A n \in 1..Len(phone_numbers) : phone_numbers[n] # <<>>
  /\ \A n \in 1..Len(calls) : calls[n].target # <<>>
  /\ \A n \in 1..Len(Records(output_csv)) : Records(output_csv)[n][1] # <<>>

\* the channel of the scenario: Success for "111", the alert "invalid" for "222"
ScenarioChannel ==
  \A n \in 1..Len(calls) :
     /\ calls[n].target = <<"1", "1", "1">> => calls[n].outcome = "Success"
     /\ calls[n].target = <<"2", "2", "2">> =>
           calls[n].outcome = "Skipped" /\ calls[n].detail = "invalid"

ScenarioLedger ==
  << ResultsHeader,
     << <<"1", "1", "1">>, "Sent successfully" >>,
     << <<"2", "2", "2">>, "Failed - Invalid number: invalid" >> >>

\* C10 (end-to-end scenario), as claimed: over ["111", "+111", "222"] with no
\* results file and the scenario's channel, the finished first run leaves
\* exactly the two records; a run that starts from that file makes no call.
C10_EndToEnd ==
  /\ (startLen = 0 /\ Completed /\ ScenarioChannel) => output_csv = ScenarioLedger
  /\ StartLedger = ScenarioLedger => calls = <<>>

\* the three outcomes a send_message call that returned can have
Recorded == {"Success", "Skipped", "Failed"}

\* C11 (per-target errors never abort the run): in a run that is not killed,
\* send_message is called for the targets of the pending list in order;
\* whatever the page does for a target, the call returns with one of the
\* three outcomes and its row written, never with an exception that leaves
\* the loop; a run that started on the list and ended by itself has called
\* send_message for every target of it and the file holds all their rows.
C11_NoAbortOnTargetError ==
  pc # "killed" =>
    /\ \A n \in 1..Len(calls) :
          /\ n <= Len(phone_numbers_to_send)
          /\ calls[n].target = phone_numbers_to_send[n]
          /\ calls[n].outcome # "Raised"
          /\ calls[n].outcome \in Recorded =>
                /\ n <= Len(WrittenRows)
                /\ WrittenRows[n][1] = calls[n].target
    /\ (pc = "done" /\ calls # <<>>) =>
          /\ Len(calls) = Len(phone_numbers_to_send)
          /\ Len(RunRows) = Len(calls)
          /\ \A n \in 1..Len(calls) : calls[n].outcome \in Recorded

\* C11 witness: a run ended by itself whose first call met an exception of
\* the page and whose second call was made all the same, both rows in the
\* file.
C11_Witness ==
  /\ pc = "done"
  /\ Len(calls) = 2
  /\ calls[1].outcome = "Failed"
  /\ calls[1].detail = "timeout"
  /\ Len(RunRows) = 2
  /\ RunRows[1][2] = "Failed - timeout"
  /\ RunRows[2][1] = phone_numbers_to_send[2]

\* C12 (session release on every exit path), as claimed: when a run has
\* ended by itself, close() has been called on every part of the session
\* that was acquired: neither the browser nor the page is left open.
C12_SessionReleased ==
  pc = "done" => (browser # "open" /\ page # "open")

\* C13 (an unreadable source file is fatal before the session), as claimed:
\* in a run that could not read the phone CSV or the message file, no part
\* of the session is acquired, send_message is never called and no record is
\* written.
C13_InputErrorFatal ==
  (log \cap {"phone_csv", "message_txt"} # {}) =>
     /\ browser = "unbound"
     /\ page = "unbound"
     /\ calls = <<>>
     /\ buf = <<>>
     /\ Records(output_csv) = Records(StartLedger)

C15_ExitStatus ==
  pc = "done" =>
     (exit_status = "nonzero"
        <=> log \cap {"phone_csv", "message_txt", "session"} # {})

\* C16 (cancellation between targets), as claimed: when the operator has
\* interrupted the run, every send_message call that was started has ended
\* with one of the three outcomes and its row is in the results file.
\* Stated for the targets that have digits.
C16_CancelBetweenTargets ==
  pc = "interrupted" =>
     \A n \in 1..Len(calls) :
        calls[n].target # <<>> =>
           /\ calls[n].outcome \in Recorded
           /\ n <= Len(RunRows)
           /\ RunRows[n][1] = calls[n].target

\* the canonical targets that have at least one 'Sent successfully' record
SuccessTargets(file) ==
  { T \in { DigitsOf(r[1]) : r \in Range(Records(file)) } : HasSuccess(file, T) }

\* the records of a file for canonical target T that are not 'Sent successfully'
OtherRecords(file, T) ==
  { n \in 1..Len(Records(file)) :
       DigitsOf(Records(file)[n][1]) = T /\ Records(file)[n][2] # "Sent successfully" }

\* C17 (sticky success): the done set read from a results file is exactly
\* the set of canonical targets with at least one 'Sent successfully' record
\* in it, wherever that record stands among the other records; it is the
\* set main holds after startup.
C17_StickySuccess ==
  /\ read_processed_numbers(output_csv) = SuccessTargets(output_csv)
  /\ (pc # "start" /\ phone_numbers # <<>>) =>
        processed_numbers = SuccessTargets(StartLedger)

\* C17 witness: a later run read a results file in which a target has a
\* 'Sent successfully' record followed by a Failed record for the same
\* target, and holds that target in its done set.
C17_Witness ==
  /\ startLen > 0
  /\ pc # "start"
  /\ \E T \in processed_numbers :
     \E m, n \in 1..Len(Records(StartLedger)) :
        /\ m < n
        /\ DigitsOf(Records(StartLedger)[m][1]) = T
        /\ Records(StartLedger)[m][2] = "Sent successfully"
        /\ n \in OtherRecords(StartLedger, T)

\* the reasons is_number_on_whatsapp returns when no attempt found a known
\* element: the text of the last exception, or the not-found text
InconclusiveReasons == ErrorTexts \cup {NotFoundReason}

\* C18 (probe mode keeps the three-way outcome), as claimed: a probe in
\* which every attempt raised, or whose attempt found none of the known
\* elements, adds no row for its number to non_whatsapp_numbers.csv; and a
\* number of the input whose only rows in the result files are of such
\* probes is in the list to check of the next run.  Stated for the numbers
\* that have digits.
C18_ProbeThreeWay ==
  /\ \A n \in 1..Len(calls) :
        (calls[n].seen \in {"exception", "none"} /\ DigitsOf(calls[n].target) # <<>>) =>
           <<calls[n].target, calls[n].reason>> \notin Range(non_whatsapp_csv)
  /\ \A T \in Range(phone_numbers) :
        ( /\ pc = "session"
          /\ T \notin read_existing_numbers(whatsapp_csv)
          /\ \A n \in 1..Len(non_whatsapp_csv) :
                non_whatsapp_csv[n][1] = T =>
                   non_whatsapp_csv[n][2] \in InconclusiveReasons )
           => T \in Range(phone_numbers_to_send)

\* C19 (batch size has no effect), as claimed: whatever the batch size, the
\* run does what a plain loop over the pending list does: the calls are for
\* the targets of the list in order, the loop stands after the targets
\* called so far, and a run that acquired its session and ended by itself has
\* called send_message for every target of the list.
C19_BatchSizeNoEffect ==
  /\ \A n \in 1..Len(calls) :
        n <= Len(phone_numbers_to_send) /\ calls[n].target = phone_numbers_to_send[n]
  /\ pc = "sending" => i + k = Len(calls)
  /\ (pc = "done" /\ browser # "unbound" /\ "session" \notin log) =>
        Len(calls) = Len(phone_numbers_to_send)

\* C20 (one record per attempt), as claimed: when a run has ended, however
\* it ended, the results file holds, for every send_message call that
\* returned, one row for its target, in the order of the calls, and no other
\* row from this run.  Stated for the targets that have digits.
C20_OneRecordPerAttempt ==
  pc \in {"done", "killed", "interrupted"} =>
     /\ \A n \in 1..Len(calls) :
           (calls[n].outcome \in Recorded /\ calls[n].target # <<>>) =>
              /\ n <= Len(RunRows)
              /\ RunRows[n] = <<calls[n].target,
                                StatusOf(IF calls[n].outcome = "Success" THEN "sent"
                                         ELSE IF calls[n].outcome = "Skipped" THEN "alert"
                                         ELSE IF calls[n].detail = "" THEN "no_box"
                                         ELSE "type_error", calls[n].detail)>>
     /\ Len(RunRows) <= Len(calls)

\* C21 (bounded adapter retry), as claimed: is_number_on_whatsapp makes at
\* most MaxRetries attempts, a further one only after an attempt that
\* raised, and returns what the first attempt that raised nothing returns (a
\* pair with on FALSE when all raised); the result of a call is written as
\* it is to one of the two files; and after the call for a number no other
\* call is made for that number in the same run (this last part stated for
\* the numbers that have digits).
C21_BoundedRetry ==
  /\ \A attempts \in AttemptSeqs : \A texts \in TextSeqs(attempts) :
        LET r == is_number_on_whatsapp(attempts, texts, 1) IN
        /\ r.attempts \in 1..MaxRetries
        /\ \A n \in 1..(r.attempts - 1) : attempts[n] = "exception"
        /\ r.on \in BOOLEAN
        /\ attempts[r.attempts] # "exception" =>
              /\ r.on = ReturnOf(attempts[r.attempts], texts[r.attempts]).on
              /\ r.reason = ReturnOf(attempts[r.attempts], texts[r.attempts]).reason
        /\ attempts[r.attempts] = "exception" => (r.attempts = MaxRetries /\ ~r.on)
  /\ \A n \in 1..Len(calls) :
        /\ calls[n].attempts \in 1..MaxRetries
        /\ calls[n].seen = "exception" => calls[n].attempts = MaxRetries
        /\ IF calls[n].on
           THEN <<calls[n].target>> \in Range(whatsapp_csv)
           ELSE <<calls[n].target, calls[n].reason>> \in Range(non_whatsapp_csv)
  /\ \A m, n \in 1..Len(calls) :
        (m < n /\ DigitsOf(calls[m].target) # <<>>) => calls[m].target # calls[n].target

\* the first fields of all rows of a probe-mode result file
FirstFields(file) == { file[n][1] : n \in { m \in 1..Len(file) : file[m] # <<>> } }

\* the two result files as they were when this run started: each call of
\* the run appended one row to one of them
StartPositive ==
  SubSeq(whatsapp_csv, 1,
         Len(whatsapp_csv) - Cardinality({ n \in 1..Len(calls) : calls[n].on }))
StartNegative ==
  SubSeq(non_whatsapp_csv, 1,
         Len(non_whatsapp_csv) - Cardinality({ n \in 1..Len(calls) : ~calls[n].on }))

\* C22 (probe-mode partition), as claimed: every number probed in this run
\* is in exactly one of the two result files; what the run read from the
\* files at startup is still in them; and no number that was in one of the
\* files when the run started is probed.  Stated for the numbers that have
\* digits.
C22_ProbePartition ==
  /\ \A n \in 1..Len(calls) :
        DigitsOf(calls[n].target) # <<>> =>
           /\ (calls[n].target \in FirstFields(whatsapp_csv))
                 # (calls[n].target \in FirstFields(non_whatsapp_csv))
           /\ calls[n].target \notin FirstFields(StartPositive)
           /\ calls[n].target \notin FirstFields(StartNegative)
  /\ (pc # "start" /\ phone_numbers # <<>>) =>
        processed_numbers \subseteq FirstFields(whatsapp_csv) \cup FirstFields(non_whatsapp_csv)

\* every target of the input list main read has a 'Sent successfully'
\* record in the results file as it was at startup (an empty or unreadable
\* input list included)
NothingLeftToDo ==
  /\ pc # "start"
  /\ \A n \in 1..Len(phone_numbers) : phone_numbers[n] \in SuccessTargets(StartLedger)

\* C23 (nothing left to do): when every target of the input list is already
\* done, or the list is empty, the run has ended with no browser session
\* acquired or attempted, no call of send_message, nothing buffered, and the
\* results file exactly as it was at startup (not created when missing).
C23_NothingLeftToDo ==
  NothingLeftToDo =>
     /\ pc = "done"
     /\ browser = "unbound"
     /\ page = "unbound"
     /\ "session" \notin log
     /\ calls = <<>>
     /\ buf = <<>>
     /\ output_csv = StartLedger
     /\ exit_status = "zero"

\* C23 witness: a later run whose input list is not empty found every one
\* of its targets in the done set read from the results file, and ended.
C23_Witness ==
  /\ NothingLeftToDo
  /\ run > 1
  /\ phone_numbers # <<>>
  /\ \A n \in 1..Len(phone_numbers) : phone_numbers[n] \in processed_numbers
  /\ pc = "done"
  /\ calls = <<>>
  /\ output_csv = StartLedger

====
